---------------------------- MODULE Spec2Model ----------------------------
(***************************************************************************)
(* K8 fan controller: the control loop (controller.py), the fan I/O layer  *)
(* (fan_io.py), the safety manager (safety.py), the temperature history    *)
(* (temperature.py), the sensor views (sensors.py) and the speed policy    *)
(* (policy.py).                                                            *)
(*                                                                         *)
(* Temperatures are integers in units of 1/TempDen degree Celsius, so that *)
(* the mean of up to averaging_samples whole-degree readings is exact.     *)
(* Python's float arithmetic is modelled by exact rational arithmetic.     *)
(***************************************************************************)
EXTENDS Integers, Sequences, FiniteSets, TLC

VARIABLES
    \* ---- hardware (sysfs files) ----
    enable,                 \* pwm*_enable file of each fan: "0" | "1" | "2"
    pwm,                    \* pwm file of each fan: raw duty 0..255
    \* ---- configuration ----
    cpu_auto,               \* config['cpu_auto']
    check_interval_ok,      \* config['check_interval'] is a value time.sleep accepts
    injected,               \* a policy object was passed to FanController(policy=...)
    \* ---- FanIO ----
    original_pwm_mode,      \* fan -> captured mode, NoMode when not captured
    last_change_ts,
    \* ---- FanController ----
    consecutive_failures,
    emergency_shutdown,
    last_target_speeds_by_role,
    \* ---- TemperatureHistory ----
    hist,                   \* [samples, last_seen, cycle]
    \* ---- SpeedPolicy ----
    role_state,             \* role -> [present, stable_cycles, last_temp, last_speed]
    adaptive_enabled,       \* config['adaptive_enabled']
    \* ---- control flow of run() / run_cycle() ----
    pc,                     \* position of the main thread
    idx,                    \* index into the fans list inside enable_modes_from_config
    loc,                    \* locals and bookkeeping of the run_cycle call in progress
    now,                    \* time.time()
    \* ---- bookkeeping of the run ----
    cycles,                 \* run_cycle calls started
    signals,                \* SIGINT/SIGTERM deliveries
    sensor_fail_run,        \* consecutive cycles with unavailable or invalid sensor data
    restored,               \* restore_automatic_mode completed after the last manual-mode / speed write
    writes,                 \* times of the successful set_fan_speeds_by_role calls
    \* ---- harness of the policy and history specifications ----
    call                    \* the last calculate_fan_speed evaluation

vars == << enable, pwm, cpu_auto, check_interval_ok, injected, original_pwm_mode,
           last_change_ts, consecutive_failures, emergency_shutdown,
           last_target_speeds_by_role, hist, role_state, adaptive_enabled, pc,
           idx, loc, now, cycles, signals, sensor_fail_run, restored, writes, call >>

-----------------------------------------------------------------------------
(* Bounds of the model *)

\* run_cycle calls explored per run
MaxCycles == 3
\* signal deliveries explored per run
MaxSignals == 2
\* TemperatureHistory.update calls explored on a history of its own
MaxUpdates == 5
\* averaged() calls in a row after an update that the history harness makes
MaxReads == 2

-----------------------------------------------------------------------------
(* Configuration values and program constants *)

averaging_samples == 2
TempDen == averaging_samples
Deg(c) == c * TempDen

max_failures == 3
min_speed_change == 3
min_change_interval == 2
check_interval == 1
critical_sleep == 30
critical_temp == Deg(95)
emergency_temp == Deg(65)
ramp_start == Deg(50)
ramp_range == Deg(20)
hysteresis == Deg(5)
curve_min_speed == 20
max_fan_speed == 90
rpm_ignore_floor == 800
drop_step == 5
raise_step == 3
stable_cycles_required == 5
\* adaptive_temp_window = 1.5 degrees, adaptive_temp_aggressive = 3.0 degrees
temp_window == 3
temp_aggressive == Deg(3)
\* validate_temperatures accepts 0..150 degrees
valid_temp_max == Deg(150)

FanList == << "fan1", "fan2" >>
Fans == { FanList[i] : i \in 1..Len(FanList) }
FanRole == [ f \in Fans |-> IF f = "fan1" THEN "cpu" ELSE "case" ]
Sensors == { "s1", "s2" }
\* config['critical_sensors_by_role']: cpu is governed by s1, case has no mapping
critical_sensors_by_role == [ r \in {"cpu"} |-> {"s1"} ]

NoMode == "none"
None == -1
EmptyMap == [ x \in {} |-> 0 ]

-----------------------------------------------------------------------------
(* Helpers *)

Max(a, b) == IF a >= b THEN a ELSE b
Min(a, b) == IF a <= b THEN a ELSE b
Abs(a) == IF a >= 0 THEN a ELSE -a
MaxOf(S) == CHOOSE x \in S : \A y \in S : y <= x
\* int(a / b) for b > 0: truncation toward zero
TruncDiv(a, b) == IF a >= 0 THEN a \div b ELSE -((-a) \div b)
\* int(round(a / b)) for a >= 0, b > 0: round half to even
RoundDiv(a, b) ==
    LET q == a \div b
        r == a % b
    IN  IF 2 * r < b THEN q
        ELSE IF 2 * r > b THEN q + 1
        ELSE IF q % 2 = 0 THEN q ELSE q + 1
RECURSIVE SumSeq(_)
SumSeq(s) == IF s = << >> THEN 0 ELSE Head(s) + SumSeq(Tail(s))
PartialMaps(D, V) == UNION { [ S -> V ] : S \in SUBSET D }


-----------------------------------------------------------------------------
(* fan_io.py: conversions *)

\* FanIO._percent_to_pwm
PercentToPwm(percent) ==
    LET p == Max(0, Min(100, percent))
    IN  TruncDiv(p * 255, 100)

PwmToPercent_Truncating(pwm_val) ==
    TruncDiv(Max(0, Min(255, pwm_val)) * 100, 255)

\* FanIO._pwm_to_percent
PwmToPercent(pwm_val) ==
    LET v == Max(0, Min(255, pwm_val))
    IN  RoundDiv(v * 100, 255)

-----------------------------------------------------------------------------
(* temperature.py: TemperatureHistory *)

\* TemperatureHistory.__init__
HistInit ==
    [ keys      |-> {},
      samples   |-> [ s \in Sensors |-> << >> ],
      last_seen |-> [ s \in Sensors |-> 0 ],
      cycle     |-> 0 ]

DequeAppend_Unbounded(series, value, maxlen) == Append(series, value)

\* deque(maxlen=maxlen).append
DequeAppend(series, value, maxlen) ==
    IF Len(series) >= maxlen THEN Append(Tail(series), value)
    ELSE Append(series, value)

StaleCutoff_Late(cycle, maxlen) == cycle - maxlen - 1

\* stale_cutoff (temperature.py:32)
StaleCutoff(cycle, maxlen) == cycle - maxlen

NoReadings_Never(temperatures) == FALSE

\* `not temperatures` (temperature.py:18): the snapshot is empty
NoReadings(temperatures) == DOMAIN temperatures = {}

\* TemperatureHistory.update; keys are the keys of _samples, and a sensor that
\* is not a key has the empty series and last_seen 0 (the .get defaults).
HistUpdate(h, temperatures) ==
    IF NoReadings(temperatures) THEN h
    ELSE
        LET cyc == h.cycle + 1
            maxlen == Max(1, averaging_samples)
            seen == DOMAIN temperatures
            appended == [ s \in Sensors |->
                            IF s \in seen
                            THEN DequeAppend(h.samples[s], temperatures[s], maxlen)
                            ELSE h.samples[s] ]
            ls == [ s \in Sensors |-> IF s \in seen THEN cyc ELSE h.last_seen[s] ]
            stale_cutoff == StaleCutoff(cyc, maxlen)
            keys == h.keys \cup seen
            stale == { s \in keys : ls[s] <= stale_cutoff }
        IN  [ keys      |-> keys \ stale,
              samples   |-> [ s \in Sensors |-> IF s \in stale THEN << >> ELSE appended[s] ],
              last_seen |-> [ s \in Sensors |-> IF s \in stale THEN 0 ELSE ls[s] ],
              cycle     |-> cyc ]

Averaged_OverWindow(h) ==
    [ s \in { k \in h.keys : h.samples[k] # << >> } |->
        (SumSeq(h.samples[s]) * TempDen) \div Max(1, averaging_samples) ]

\* TemperatureHistory.averaged: sum(values) / len(values), in model units
\* (TempDen is a multiple of every window length, so the division is exact)
Averaged(h) ==
    LET kept == { s \in h.keys : h.samples[s] # << >> }
    IN  [ s \in kept |-> (SumSeq(h.samples[s]) * TempDen) \div Len(h.samples[s]) ]

-----------------------------------------------------------------------------
(* sensors.py *)

\* SensorsReader.validate_temperatures (readings in whole degrees)
ValidateTemperatures(temperatures) ==
    /\ DOMAIN temperatures # {}
    /\ \A s \in DOMAIN temperatures :
          ~ (temperatures[s] < 0 \/ Deg(temperatures[s]) > valid_temp_max)

SensorsForRole_AllSensors(temperatures, role) == temperatures

\* SensorsReader.sensors_for_role; a sensor is in critical_sensors_by_role[role]
\* when its adapter name contains one of the role's configured entries
SensorsForRole(temperatures, role) ==
    IF role \notin DOMAIN critical_sensors_by_role
       \/ critical_sensors_by_role[role] = {}
    THEN temperatures
    ELSE LET out == DOMAIN temperatures \cap critical_sensors_by_role[role]
         IN  IF out = {} THEN temperatures
             ELSE [ s \in out |-> temperatures[s] ]

-----------------------------------------------------------------------------
(* policy.py: SpeedPolicy *)

Roles == { FanRole[f] : f \in Fans }

\* SpeedPolicy.__init__: role_state = {}
NoState == [ present |-> FALSE, stable_cycles |-> 0, last_temp |-> 0, last_speed |-> 0 ]
RoleStateInit == [ r \in Roles |-> NoState ]

\* SpeedPolicy.target_temp_for_role
TargetTempForRole(role, temperatures) ==
    LET role_temps == SensorsForRole(temperatures, role)
    IN  IF DOMAIN role_temps = {} THEN 0
        ELSE MaxOf({ role_temps[s] : s \in DOMAIN role_temps })

TargetPercent_NoHysteresis(target_temp, current_percent, hyst, max_speed) ==
    LET rrange == Max(ramp_range, Deg(1))
        num == target_temp - ramp_start
    IN  IF target_temp <= ramp_start THEN curve_min_speed
        ELSE IF target_temp >= ramp_start + rrange THEN max_speed
        ELSE curve_min_speed + TruncDiv(num * (max_speed - curve_min_speed), rrange)

TargetPercent_UnclampedRatio(target_temp, current_percent, hyst, max_speed) ==
    LET rrange == Max(ramp_range, Deg(1))
        effective_threshold ==
            ramp_start - (IF current_percent > curve_min_speed THEN hyst ELSE 0)
        num == target_temp - effective_threshold
    IN  IF target_temp <= effective_threshold THEN curve_min_speed
        ELSE IF target_temp >= ramp_start + rrange THEN max_speed
        ELSE curve_min_speed + TruncDiv(num * (max_speed - curve_min_speed), rrange)

TargetPercent_RaisedThreshold(target_temp, current_percent, hyst, max_speed) ==
    LET rrange == Max(ramp_range, Deg(1))
        effective_threshold ==
            ramp_start + (IF current_percent > curve_min_speed THEN hyst ELSE 0)
        num == target_temp - effective_threshold
    IN  IF target_temp <= effective_threshold THEN curve_min_speed
        ELSE IF target_temp >= ramp_start + rrange THEN max_speed
        ELSE IF num >= rrange THEN max_speed
        ELSE curve_min_speed + TruncDiv(num * (max_speed - curve_min_speed), rrange)

\* SpeedPolicy._target_percent
TargetPercent(target_temp, current_percent, hyst, max_speed) ==
    LET rstart == ramp_start
        rrange == Max(ramp_range, Deg(1))
        min_spd == curve_min_speed
        effective_threshold == rstart - (IF current_percent > min_spd THEN hyst ELSE 0)
    IN  IF target_temp <= effective_threshold THEN min_spd
        ELSE IF target_temp >= rstart + rrange THEN max_speed
        ELSE LET num == target_temp - effective_threshold
                 \* ratio = num / rrange clamped to [0, 1]
             IN  IF num <= 0 THEN min_spd
                 ELSE IF num >= rrange THEN min_spd + (max_speed - min_spd)
                 ELSE min_spd + TruncDiv(num * (max_speed - min_spd), rrange)

\* The base target calculate_fan_speed computes (policy.py:66-71)
BaseTarget(target_temp, current_speed) ==
    TargetPercent(target_temp, IF current_speed # None THEN current_speed ELSE 0,
                  hysteresis, max_fan_speed)

IsEmergency_Strict(target_temp) == target_temp > emergency_temp

\* The emergency override (policy.py:64)
IsEmergency(target_temp) == target_temp >= emergency_temp

DecliningStable_WindowOnly(delta_temp) == Abs(delta_temp) <= temp_window

\* The window test of the declining branch (policy.py:94)
DecliningStable(delta_temp) == delta_temp <= 0 \/ Abs(delta_temp) <= temp_window

\* The window test of the equal branch (policy.py:137)
EqualStable(delta_temp) == ~ (Abs(delta_temp) > temp_window)

DropAllowed_Early(stable_cycles, target_temp) ==
    stable_cycles >= stable_cycles_required - 1 /\ target_temp <= ramp_start

DropAllowed_Never(stable_cycles, target_temp) == FALSE

\* The gate of a step down (policy.py:99)
DropAllowed(stable_cycles, target_temp) ==
    stable_cycles >= stable_cycles_required /\ target_temp <= ramp_start

JumpToBase_Always(delta_temp, target_temp) == TRUE

JumpToBase_AggressiveOnly(delta_temp, target_temp) == delta_temp >= temp_aggressive

\* The test of the rising branch for going straight to base (policy.py:122)
JumpToBase(delta_temp, target_temp) ==
    delta_temp >= temp_aggressive \/ target_temp >= ramp_start

CapStable_Uncapped(n) == n

\* min(stable_cycles + 1, stable_cycles_required * 3) (policy.py:95, 140)
CapStable(n) == Min(n, stable_cycles_required * 3)

\* SpeedPolicy.calculate_fan_speed(role, target_temp, current_speed) evaluated in
\* the role state st (role_state.get(role)); the result is the returned speed
\* and the role state left behind.
CalculateFanSpeed(st, target_temp, current_speed) ==
    IF IsEmergency(target_temp) THEN [ speed |-> max_fan_speed, state |-> st ]
    ELSE
    LET base_target == BaseTarget(target_temp, current_speed)
    IN  IF ~ adaptive_enabled THEN [ speed |-> base_target, state |-> st ]
        ELSE
        LET cur == IF current_speed # None THEN current_speed ELSE base_target
            \* role_state.setdefault(role, {...})
            state == IF st.present THEN st
                     ELSE [ present |-> TRUE, stable_cycles |-> 0,
                            last_temp |-> target_temp, last_speed |-> cur ]
            delta_temp == target_temp - state.last_temp
            abs_delta == Abs(delta_temp)
            \* stable_cycles and new_speed at the end of the if / elif / else
            declined == IF DecliningStable(delta_temp)
                        THEN CapStable(state.stable_cycles + 1) ELSE 0
            out == IF base_target < cur
                   THEN IF DropAllowed(declined, target_temp)
                        THEN [ sc |-> 0, ns |-> Max(cur - drop_step, base_target) ]
                        ELSE [ sc |-> declined, ns |-> cur ]
                   ELSE IF base_target > cur
                   THEN IF JumpToBase(delta_temp, target_temp)
                        THEN [ sc |-> 0, ns |-> base_target ]
                        ELSE [ sc |-> 0, ns |-> Min(base_target, cur + raise_step) ]
                   ELSE IF EqualStable(delta_temp)
                        THEN [ sc |-> CapStable(state.stable_cycles + 1), ns |-> base_target ]
                        ELSE [ sc |-> 0, ns |-> base_target ]
        IN  [ speed |-> Max(curve_min_speed, Min(max_fan_speed, out.ns)),
              state |-> [ present |-> TRUE, stable_cycles |-> out.sc,
                          last_temp |-> target_temp, last_speed |-> out.ns ] ]

\* SpeedPolicy.apply_rpm_floors
ApplyRpmFloors(target_speeds, current_speeds, current_rpms) == target_speeds

\* est_rpm = cur_rpm * (raw_target / float(cur_pct)) is evaluated in IEEE-754
\* doubles: the quotient is rounded before it is multiplied. For percentages
\* 1..100, rpm_ignore_floor = 800 and tachometer readings up to 6000 the
\* rounded product differs from the exact one only where the exact estimate
\* equals the floor; these are the << cur_pct, raw_target, cur_rpm >> for which
\* the double product is 799.9999999999999.
RoundsBelowFloor ==
    { << 39, 10, 3120 >>, << 39, 20, 1560 >>, << 49, 8, 4900 >>, << 49, 16, 2450 >>,
      << 49, 32, 1225 >>, << 61, 10, 4880 >>, << 61, 20, 2440 >>, << 61, 40, 1220 >>,
      << 67, 10, 5360 >>, << 67, 20, 2680 >>, << 67, 40, 1340 >>, << 77, 20, 3080 >>,
      << 77, 40, 1540 >>, << 78, 20, 3120 >>, << 78, 40, 1560 >>, << 97, 25, 3104 >>,
      << 97, 50, 1552 >>, << 98, 16, 4900 >>, << 98, 32, 2450 >>, << 98, 64, 1225 >> }

\* est_rpm < floor (policy.py:173-174), for cur_pct > 0
EstRpmBelowFloor(cur_rpm, raw_target, cur_pct) ==
    \/ cur_rpm * raw_target < rpm_ignore_floor * cur_pct
    \/ << cur_pct, raw_target, cur_rpm >> \in RoundsBelowFloor

\* SpeedPolicy.clamp_floor_when_lowering
ClampFloorWhenLowering(target_speeds, current_speeds, current_rpms) ==
    [ role \in DOMAIN target_speeds |->
        IF /\ role \in DOMAIN current_speeds
           /\ current_speeds[role] > 0
           /\ role \in DOMAIN current_rpms
           /\ current_rpms[role] > 0
           /\ target_speeds[role] < current_speeds[role]
           /\ EstRpmBelowFloor(current_rpms[role], target_speeds[role],
                               current_speeds[role])
        THEN current_speeds[role]
        ELSE target_speeds[role] ]

\* SpeedPolicy.smooth_targets
SmoothTargets(target_speeds, current_speeds) ==
    [ role \in DOMAIN target_speeds |-> Max(0, Min(100, target_speeds[role])) ]

-----------------------------------------------------------------------------
(* fan_io.py: FanIO *)

Modes == { "0", "1", "2" }
\* tachometer readings
RpmVals == { 0, 700, 1000 }

RECURSIVE SetSum(_, _)
SetSum(S, f) ==
    IF S = {} THEN 0
    ELSE LET x == CHOOSE y \in S : TRUE IN f[x] + SetSum(S \ {x}, f)

\* FanIO.backup_current_pwm_mode; readable: the enable paths whose read succeeds
BackupCurrentPwmMode(orig, en, readable) ==
    [ f \in Fans |-> IF orig[f] # NoMode THEN orig[f]
                     ELSE IF f \in readable THEN en[f] ELSE NoMode ]

\* The value enable_modes_from_config writes for one fan
ConfiguredMode(f) == IF FanRole[f] = "cpu" /\ cpu_auto THEN "2" ELSE "1"

\* The value restore_automatic_mode writes for one fan (fan_io.py:72-75)
RestoreValue(orig, f) == IF orig[f] # NoMode THEN orig[f] ELSE "2"

\* FanIO.restore_automatic_mode: the enable files it leaves
RestoreAutomaticMode(orig, en) == [ f \in Fans |-> RestoreValue(orig, f) ]

\* FanIO.restore_automatic_mode when opening or writing the enable paths in
\* failing raises: the inner except (fan_io.py:78-79) logs at debug level and
\* the loop goes on; the method has no return statement and no exception
\* leaves it. The result is the enable files left, the value returned, whether
\* an exception reached the caller, and whether an attribute of FanIO was
\* assigned.
RestoreWithFailures(orig, en, failing) ==
    [ enable   |-> [ f \in Fans |-> IF f \in failing THEN en[f]
                                    ELSE RestoreValue(orig, f) ],
      ret      |-> None,
      raised   |-> FALSE,
      recorded |-> FALSE ]

\* FanIO.get_current_speed_by_role; readable: the pwm paths whose read succeeds
GetCurrentSpeedByRole(roles, readable) ==
    LET pct == [ f \in Fans |-> PwmToPercent(pwm[f]) ]
        of(r) == { f \in readable : FanRole[f] = r }
        have == { r \in roles : of(r) # {} }
    IN  [ r \in have |-> TruncDiv(SetSum(of(r), pct), Cardinality(of(r))) ]

\* FanIO.get_current_rpm_by_role; rpm: the tachometer reading of each fan whose
\* read succeeds
GetCurrentRpmByRole(roles, rpm) ==
    LET of(r) == { f \in DOMAIN rpm : FanRole[f] = r /\ rpm[f] > 0 }
        have == { r \in roles : of(r) # {} }
    IN  [ r \in have |-> TruncDiv(SetSum(of(r), rpm), Cardinality(of(r))) ]

\* The fans set_fan_speeds_by_role writes (fan_io.py:125-132)
FansToSet(speed_map, roles) ==
    { f \in Fans : /\ FanRole[f] \in roles
                   /\ ~ (FanRole[f] = "cpu" /\ cpu_auto)
                   /\ FanRole[f] \in DOMAIN speed_map }

\* FanIO.set_fan_speeds_by_role: the pwm files it leaves; failing: the pwm
\* paths whose write fails
SetFanSpeedsPwm(speed_map, roles, failing) ==
    [ f \in Fans |->
        IF f \in FansToSet(speed_map, roles) /\ f \notin failing
        THEN PercentToPwm(Max(0, Min(100, speed_map[FanRole[f]])))
        ELSE pwm[f] ]

\* FanIO.set_fan_speeds_by_role: its return value
SetFanSpeedsOk(speed_map, roles, failing) ==
    FansToSet(speed_map, roles) \cap failing = {}

-----------------------------------------------------------------------------
(* safety.py: SafetyManager *)

CriticalTrip_Strict(max_temp) == max_temp > critical_temp

\* SafetyManager.handle_critical_temperature: the trip condition
CriticalTrip(max_temp) == max_temp >= critical_temp

-----------------------------------------------------------------------------
(* controller.py: FanController *)

\* time.time() when the controller starts
StartTime == 10
\* whole-degree readings `sensors -j` reports for each sensor: cool, warm,
\* critical, implausible
ReadingVals == [ s \in Sensors |-> IF s = "s1" THEN { 40, 60, 95, 151 } ELSE { 40 } ]
\* what extract_temperatures can return: any subset of the sensors reporting
ReadingMaps ==
    { m \in PartialMaps(Sensors, UNION { ReadingVals[s] : s \in Sensors }) :
        \A s \in DOMAIN m : m[s] \in ReadingVals[s] }
\* speeds an injected policy object returns
InjectedSpeeds == { 20, 50 }

\* The parameters calculate_fan_speed declares after self (policy.py:59)
calculate_fan_speed_params == << "role", "target_temp", "current_speed" >>
\* The positional arguments run_cycle passes to it (controller.py:145)
run_cycle_call_args == << "target_temps_by_role[r]", "current_speeds.get(r, 0)" >>
\* Python binds positional arguments to parameters one to one; a required
\* parameter left without an argument raises TypeError
CallRaisesTypeError(params, args) == Len(args) # Len(params)
\* The call of controller.py:145 raises unless an injected policy object
\* accepts the two arguments
PolicyCallRaises ==
    ~ injected /\ CallRaisesTypeError(calculate_fan_speed_params, run_cycle_call_args)

\* Locals of run_cycle, with what the call did so far
LocInit ==
    [ sense          |-> "none",     \* none | unavailable | invalid | valid
      temps          |-> EmptyMap,   \* extract_temperatures, whole degrees
      avg_temps      |-> EmptyMap,
      target_temps   |-> EmptyMap,   \* target_temps_by_role
      max_temp       |-> 0,
      speeds_read    |-> "none",     \* none | failed | ok
      current_speeds |-> EmptyMap,
      targets        |-> EmptyMap,   \* smooth_targets
      ret            |-> "none",     \* none | True | False
      restore_calls  |-> 0,          \* restore_automatic_mode calls of this cycle
      set_called     |-> FALSE,      \* set_fan_speeds_by_role was invoked
      set_ok         |-> FALSE,      \* ... and returned True
      set_elapsed    |-> 0,          \* time.time() - last_change_ts at the invocation
      raised         |-> FALSE ]     \* the except branch ran

RawMaxTemp_Averaged(temps, avg_temps) ==
    MaxOf({ avg_temps[s] : s \in DOMAIN avg_temps })

\* max_temp = max(temps.values()) (controller.py:135), in model units
RawMaxTemp(temps, avg_temps) == Deg(MaxOf({ temps[s] : s \in DOMAIN temps }))

CountFailure_Uncounted(cf) == [ cf |-> cf, stop |-> cf >= max_failures ]

\* consecutive_failures += 1; if consecutive_failures >= max_failures: restore,
\* return False; return True (controller.py:111-117, 121-127, 176-181)
CountFailure(cf) == [ cf |-> cf + 1, stop |-> cf + 1 >= max_failures ]

\* any(abs(smooth_targets.get(r,0) - current_speeds.get(r,0)) >= min_change ...)
WantsChange(smooth, cur) ==
    \E r \in DOMAIN smooth :
        Abs(smooth[r] - (IF r \in DOMAIN cur THEN cur[r] ELSE 0)) >= min_speed_change

TooSoon_CheckInterval(t, last_ts) == t - last_ts < check_interval

\* time.time() - self.fan_io.last_change_ts < self.config["min_change_interval"]
TooSoon(t, last_ts) == t - last_ts < min_change_interval

\* The last two entries of the record of successful writes
Remember(w, t) == IF Len(w) >= 2 THEN << w[Len(w)], t >> ELSE Append(w, t)

ctlFrame == << cpu_auto, check_interval_ok, injected, adaptive_enabled, call >>

Init ==
    /\ enable \in [ Fans -> Modes ]
    /\ pwm = [ f \in Fans |-> PercentToPwm(20) ]
    /\ cpu_auto \in BOOLEAN
    /\ check_interval_ok \in BOOLEAN
    /\ injected = FALSE
    /\ original_pwm_mode = [ f \in Fans |-> NoMode ]
    /\ last_change_ts = 0
    /\ consecutive_failures = 0
    /\ emergency_shutdown = FALSE
    /\ last_target_speeds_by_role = EmptyMap
    /\ hist = HistInit
    /\ role_state = RoleStateInit
    /\ adaptive_enabled = TRUE
    /\ pc = "start"
    /\ idx = 1
    /\ loc = LocInit
    /\ now = StartTime
    /\ cycles = 0
    /\ signals = 0
    /\ sensor_fail_run = 0
    /\ restored = FALSE
    /\ writes = << >>
    /\ call = [ n |-> 0 ]

\* run(): backup_current_pwm_mode (controller.py:184-187)
RunStart(readable) ==
    /\ pc = "start"
    /\ original_pwm_mode' = BackupCurrentPwmMode(original_pwm_mode, enable, readable)
    /\ pc' = "enable"
    /\ idx' = 1
    /\ UNCHANGED << enable, pwm, last_change_ts, consecutive_failures,
                    emergency_shutdown, last_target_speeds_by_role, hist, role_state,
                    loc, now, cycles, signals, sensor_fail_run, restored, writes,
                    ctlFrame >>

\* enable_modes_from_config: the write for one fan of the list
EnableStep ==
    /\ pc = "enable"
    /\ idx <= Len(FanList)
    /\ enable' = [ enable EXCEPT ![FanList[idx]] = ConfiguredMode(FanList[idx]) ]
    /\ restored' = FALSE
    /\ idx' = idx + 1
    /\ pc' = IF idx = Len(FanList) THEN "loop" ELSE "enable"
    /\ UNCHANGED << pwm, original_pwm_mode, last_change_ts, consecutive_failures,
                    emergency_shutdown, last_target_speeds_by_role, hist, role_state,
                    loc, now, cycles, signals, sensor_fail_run, writes, ctlFrame >>

\* while not self.emergency_shutdown: run_cycle() is entered (controller.py:191-192)
LoopCheck ==
    /\ pc = "loop"
    /\ cycles < MaxCycles
    /\ IF emergency_shutdown
       THEN pc' = "finally" /\ UNCHANGED << cycles, loc >>
       ELSE pc' = "sense" /\ cycles' = cycles + 1 /\ loc' = LocInit
    /\ UNCHANGED << enable, pwm, original_pwm_mode, last_change_ts,
                    consecutive_failures, emergency_shutdown,
                    last_target_speeds_by_role, hist, role_state, idx, now, signals,
                    sensor_fail_run, restored, writes, ctlFrame >>

\* run_cycle: a failure of the sensor stage (controller.py:110-117, 120-127)
SenseFailure(kind, temps) ==
    LET f == CountFailure(consecutive_failures)
    IN  /\ consecutive_failures' = f.cf
        /\ sensor_fail_run' = sensor_fail_run + 1
        /\ IF f.stop
           THEN /\ enable' = RestoreAutomaticMode(original_pwm_mode, enable)
                /\ restored' = TRUE
                /\ loc' = [ loc EXCEPT !.sense = kind, !.temps = temps,
                                       !.restore_calls = @ + 1, !.ret = "False" ]
           ELSE /\ UNCHANGED << enable, restored >>
                /\ loc' = [ loc EXCEPT !.sense = kind, !.temps = temps, !.ret = "True" ]
        /\ pc' = "returned"

\* run_cycle: get_sensors_json returns None
SenseUnavailable ==
    /\ pc = "sense"
    /\ SenseFailure("unavailable", EmptyMap)
    /\ UNCHANGED << pwm, original_pwm_mode, last_change_ts, emergency_shutdown,
                    last_target_speeds_by_role, hist, role_state, idx, now, cycles,
                    signals, writes, ctlFrame >>

\* run_cycle: get_sensors_json returns data, extract_temperatures gives temps
SenseReadings(temps) ==
    /\ pc = "sense"
    /\ IF ValidateTemperatures(temps)
       THEN /\ loc' = [ loc EXCEPT !.sense = "valid", !.temps = temps ]
            /\ pc' = "update"
            /\ sensor_fail_run' = 0
            /\ UNCHANGED << enable, restored, consecutive_failures >>
       ELSE SenseFailure("invalid", temps)
    /\ UNCHANGED << pwm, original_pwm_mode, last_change_ts, emergency_shutdown,
                    last_target_speeds_by_role, hist, role_state, idx, now, cycles,
                    signals, writes, ctlFrame >>

\* run_cycle: the success path up to the safety check (controller.py:129-138);
\* handle_critical_temperature restores, sleeps and makes run_cycle return False
CycleUpdate ==
    /\ pc = "update"
    /\ LET h == HistUpdate(hist, loc.temps)
           avg == Averaged(h)
           tt == [ r \in Roles |-> TargetTempForRole(r, avg) ]
           mx == RawMaxTemp(loc.temps, avg)
           l == [ loc EXCEPT !.avg_temps = avg, !.target_temps = tt, !.max_temp = mx ]
       IN  /\ consecutive_failures' = 0
           /\ hist' = h
           /\ IF CriticalTrip(mx)
              THEN /\ enable' = RestoreAutomaticMode(original_pwm_mode, enable)
                   /\ restored' = TRUE
                   /\ now' = now + critical_sleep
                   /\ loc' = [ l EXCEPT !.restore_calls = @ + 1, !.ret = "False" ]
                   /\ pc' = "returned"
              ELSE /\ loc' = l
                   /\ pc' = "speeds"
                   /\ UNCHANGED << enable, restored, now >>
    /\ UNCHANGED << pwm, original_pwm_mode, last_change_ts, emergency_shutdown,
                    last_target_speeds_by_role, role_state, idx, cycles, signals,
                    sensor_fail_run, writes, ctlFrame >>

SpeedsUnreadable_Counted(cf) == CountFailure(cf)

\* if not current_speeds: log the error, return True (controller.py:141-143):
\* the failure count it leaves and whether run_cycle stops
SpeedsUnreadable(cf) == [ cf |-> cf, stop |-> FALSE ]

\* run_cycle: get_current_speed_by_role (controller.py:140-143)
CycleReadSpeeds(readable) ==
    /\ pc = "speeds"
    /\ LET cur == GetCurrentSpeedByRole(Roles, readable)
           u == SpeedsUnreadable(consecutive_failures)
       IN  IF DOMAIN cur = {}
           THEN /\ consecutive_failures' = u.cf
                /\ loc' = [ loc EXCEPT !.speeds_read = "failed",
                                       !.ret = IF u.stop THEN "False" ELSE "True" ]
                /\ pc' = "returned"
           ELSE /\ loc' = [ loc EXCEPT !.speeds_read = "ok", !.current_speeds = cur ]
                /\ pc' = "policy"
                /\ UNCHANGED consecutive_failures
    /\ UNCHANGED << enable, pwm, original_pwm_mode, last_change_ts,
                    emergency_shutdown, last_target_speeds_by_role, hist, role_state,
                    idx, now, cycles, signals, sensor_fail_run, restored, writes,
                    ctlFrame >>

\* run_cycle: the rate-limited dispatch of smooth_targets (controller.py:162-172);
\* l: the locals so far, failing: the pwm paths whose write fails
Dispatch(l, smooth, failing) ==
    IF WantsChange(smooth, l.current_speeds) /\ ~ TooSoon(now, last_change_ts)
    THEN LET ok == SetFanSpeedsOk(smooth, Roles, failing)
         IN  /\ pwm' = SetFanSpeedsPwm(smooth, Roles, failing)
             /\ restored' = IF FansToSet(smooth, Roles) \ failing # {}
                            THEN FALSE ELSE restored
             /\ last_change_ts' = IF ok THEN now ELSE last_change_ts
             /\ last_target_speeds_by_role' =
                    IF ok THEN smooth ELSE last_target_speeds_by_role
             /\ writes' = IF ok THEN Remember(writes, now) ELSE writes
             /\ loc' = [ l EXCEPT !.targets = smooth, !.set_called = TRUE,
                                  !.set_ok = ok,
                                  !.set_elapsed = now - last_change_ts,
                                  !.ret = "True" ]
    ELSE /\ loc' = [ l EXCEPT !.targets = smooth, !.ret = "True" ]
         /\ UNCHANGED << pwm, restored, last_change_ts, last_target_speeds_by_role,
                         writes >>

\* run_cycle: the except branch (controller.py:174-181)
ExceptBranch ==
    LET f == CountFailure(consecutive_failures)
    IN  /\ consecutive_failures' = f.cf
        /\ IF f.stop
           THEN /\ enable' = RestoreAutomaticMode(original_pwm_mode, enable)
                /\ restored' = TRUE
                /\ loc' = [ loc EXCEPT !.raised = TRUE, !.restore_calls = @ + 1,
                                       !.ret = "False" ]
           ELSE /\ UNCHANGED << enable, restored >>
                /\ loc' = [ loc EXCEPT !.raised = TRUE, !.ret = "True" ]
        /\ UNCHANGED << pwm, last_change_ts, last_target_speeds_by_role, writes,
                        role_state >>

\* target_speeds = {r: calculate_fan_speed(...)}, the RPM guards and smoothing
\* (controller.py:145-149) with the controller's own SpeedPolicy
PolicyTargets(rpm) ==
    LET cur == loc.current_speeds
        res == [ r \in Roles |->
                   CalculateFanSpeed(role_state[r], loc.target_temps[r],
                                     IF r \in DOMAIN cur THEN cur[r] ELSE 0) ]
        target_speeds == [ r \in Roles |-> res[r].speed ]
        current_rpms == GetCurrentRpmByRole(Roles, rpm)
        floored == ApplyRpmFloors(target_speeds, cur, current_rpms)
        clamped == ClampFloorWhenLowering(floored, cur, current_rpms)
    IN  [ smooth |-> SmoothTargets(clamped, cur),
          state  |-> [ r \in Roles |-> res[r].state ] ]

\* run_cycle from the policy call on (controller.py:145-181)
CyclePolicy ==
    /\ pc = "policy"
    /\ ~ injected
    /\ IF PolicyCallRaises
       THEN ExceptBranch
       ELSE \E rpm \in [ Fans -> RpmVals ], failing \in SUBSET Fans :
                LET p == PolicyTargets(rpm)
                IN  /\ role_state' = p.state
                    /\ Dispatch(loc, p.smooth, failing)
                    /\ UNCHANGED << enable, consecutive_failures >>
    /\ pc' = "returned"
    /\ UNCHANGED << original_pwm_mode, emergency_shutdown, hist, idx, now, cycles,
                    signals, sensor_fail_run, ctlFrame >>

\* run_cycle from the policy call on, with an injected policy object whose
\* methods accept the controller's calls and yield smooth_targets
InjectedPolicy(smooth, failing) ==
    /\ pc = "policy"
    /\ injected
    /\ Dispatch(loc, smooth, failing)
    /\ pc' = "returned"
    /\ UNCHANGED << enable, consecutive_failures, role_state, original_pwm_mode,
                    emergency_shutdown, hist, idx, now, cycles, signals,
                    sensor_fail_run, ctlFrame >>

\* run(): run_cycle returned False: break (controller.py:192-194)
LoopBreak ==
    /\ pc = "returned"
    /\ loc.ret = "False"
    /\ pc' = "finally"
    /\ UNCHANGED << enable, pwm, original_pwm_mode, last_change_ts,
                    consecutive_failures, emergency_shutdown,
                    last_target_speeds_by_role, hist, role_state, idx, loc, now,
                    cycles, signals, sensor_fail_run, restored, writes, ctlFrame >>

\* run(): time.sleep(config["check_interval"]) (controller.py:195); d: the time
\* that passes
LoopSleep(d) ==
    /\ pc = "returned"
    /\ loc.ret = "True"
    /\ check_interval_ok
    /\ now' = now + d
    /\ pc' = "loop"
    /\ UNCHANGED << enable, pwm, original_pwm_mode, last_change_ts,
                    consecutive_failures, emergency_shutdown,
                    last_target_speeds_by_role, hist, role_state, idx, loc, cycles,
                    signals, sensor_fail_run, restored, writes, ctlFrame >>

\* run(): time.sleep rejects the configured interval; except Exception
\* (controller.py:199-200)
LoopSleepRaises ==
    /\ pc = "returned"
    /\ loc.ret = "True"
    /\ ~ check_interval_ok
    /\ pc' = "finally"
    /\ UNCHANGED << enable, pwm, original_pwm_mode, last_change_ts,
                    consecutive_failures, emergency_shutdown,
                    last_target_speeds_by_role, hist, role_state, idx, loc, now,
                    cycles, signals, sensor_fail_run, restored, writes, ctlFrame >>

\* run(): the finally block (controller.py:201-204), then the process exits
RunFinally ==
    /\ pc = "finally"
    /\ enable' = RestoreAutomaticMode(original_pwm_mode, enable)
    /\ restored' = TRUE
    /\ pc' = "exited"
    /\ UNCHANGED << pwm, original_pwm_mode, last_change_ts, consecutive_failures,
                    emergency_shutdown, last_target_speeds_by_role, hist, role_state,
                    idx, loc, now, cycles, signals, sensor_fail_run, writes,
                    ctlFrame >>

AfterSystemExit_NoFinally(at) == "exited"

\* Where SystemExit, raised by the handler, takes the main thread: through the
\* finally block of run() when it was inside the try body, out of the process
\* otherwise
AfterSystemExit(at) == IF at \in { "start", "finally" } THEN "exited" ELSE "finally"

\* _signal_handler (controller.py:70-75), delivered at any point of run().
\* pending: the main thread was inside `with open(ep, 'w') as f` of
\* enable_modes_from_config with f.write done and the file not yet closed; the
\* buffered value reaches the file when SystemExit unwinds the with block.
SignalHandler(pending) ==
    /\ pc # "exited"
    /\ signals < MaxSignals
    /\ pending => pc = "enable" /\ idx <= Len(FanList)
    /\ signals' = signals + 1
    /\ emergency_shutdown' = TRUE
    /\ LET r == RestoreAutomaticMode(original_pwm_mode, enable)
       IN  IF pending
           THEN /\ enable' = [ r EXCEPT ![FanList[idx]] = ConfiguredMode(FanList[idx]) ]
                /\ restored' = FALSE
           ELSE /\ enable' = r
                /\ restored' = TRUE
    /\ pc' = AfterSystemExit(pc)
    \* the run_cycle frame, if any, is unwound
    /\ loc' = LocInit
    /\ UNCHANGED << pwm, original_pwm_mode, last_change_ts, consecutive_failures,
                    last_target_speeds_by_role, hist, role_state, idx, now,
                    cycles, sensor_fail_run, writes, ctlFrame >>

NextCommon ==
    \/ \E readable \in SUBSET Fans : RunStart(readable)
    \/ EnableStep
    \/ LoopCheck
    \/ SenseUnavailable
    \/ \E temps \in ReadingMaps : SenseReadings(temps)
    \/ CycleUpdate
    \/ \E readable \in SUBSET Fans : CycleReadSpeeds(readable)
    \/ LoopBreak
    \/ LoopSleep(check_interval)
    \/ LoopSleepRaises
    \/ RunFinally
    \/ \E pending \in BOOLEAN : SignalHandler(pending)

\* The program as main() runs it: FanController() builds its own SpeedPolicy
Next == NextCommon \/ CyclePolicy

Spec == Init /\ [][Next]_vars

\* FanController(policy=...) with a policy object of the caller
InitInjected ==
    /\ enable = [ f \in Fans |-> "2" ]
    /\ pwm = [ f \in Fans |-> PercentToPwm(20) ]
    /\ cpu_auto \in BOOLEAN
    /\ check_interval_ok \in BOOLEAN
    /\ injected = TRUE
    /\ original_pwm_mode = [ f \in Fans |-> NoMode ]
    /\ last_change_ts = 0
    /\ consecutive_failures = 0
    /\ emergency_shutdown = FALSE
    /\ last_target_speeds_by_role = EmptyMap
    /\ hist = HistInit
    /\ role_state = RoleStateInit
    /\ adaptive_enabled = TRUE
    /\ pc = "start"
    /\ idx = 1
    /\ loc = LocInit
    /\ now = StartTime
    /\ cycles = 0
    /\ signals = 0
    /\ sensor_fail_run = 0
    /\ restored = FALSE
    /\ writes = << >>
    /\ call = [ n |-> 0 ]

NextInjected ==
    \/ NextCommon
    \/ \E smooth \in [ Roles -> InjectedSpeeds ], failing \in SUBSET Fans :
           InjectedPolicy(smooth, failing)

SpecInjected == InitInjected /\ [][NextInjected]_vars

-----------------------------------------------------------------------------
(* Properties of the control loop *)

\* A cycle of run_cycle has returned
Returned == pc = "returned"
\* ... after the sensor stage failed (data unavailable or invalid)
SensorCycleFailed == Returned /\ loc.sense \in { "unavailable", "invalid" }
\* ... after the sensor stage delivered validated readings
SensorCycleValid == Returned /\ loc.sense = "valid"
\* The validated readings of the cycle contain a raw temperature >= critical_temp
RawCritical == \E s \in DOMAIN loc.temps : Deg(loc.temps[s]) >= critical_temp

\* C1: whenever the process has exited, by whatever path (failure threshold,
\* critical trip, exception, or a signal at any point), restore_automatic_mode
\* has run to completion after the last manual-mode write and the last
\* fan-speed write.
C1_RestoreBeforeExit == pc = "exited" => restored

\* C1 witness: the process has exited after signals hit a run that had
\* written the manual modes and run cycles.
C1_Witness == pc = "exited" /\ restored /\ signals = MaxSignals /\ cycles >= 1

C4_StopsAtThreshold ==
    SensorCycleFailed
        => /\ (loc.ret = "False") <=> (sensor_fail_run = max_failures)
           /\ (loc.restore_calls > 0) <=> (sensor_fail_run = max_failures)

\* The targets calculate_fan_speed yields for the cycle's temperatures and
\* current speeds
CycleTargets ==
    [ r \in Roles |->
        CalculateFanSpeed(role_state[r], loc.target_temps[r],
                          IF r \in DOMAIN loc.current_speeds
                          THEN loc.current_speeds[r] ELSE 0).speed ]

\* C5 (as claimed): a cycle with valid readings below critical_temp, readable
\* current speeds, a role whose computed target exceeds its current speed by
\* at least min_speed_change (a raise, which the RPM-floor clamp leaves alone)
\* and min_change_interval elapsed dispatches the computed targets through
\* set_fan_speeds_by_role before it returns.
C5_TargetsDispatched ==
    ( /\ SensorCycleValid
      /\ ~ RawCritical
      /\ loc.speeds_read = "ok"
      /\ \E r \in DOMAIN loc.current_speeds :
            CycleTargets[r] - loc.current_speeds[r] >= min_speed_change
      /\ ~ TooSoon(now, last_change_ts) )
        => /\ loc.set_called
           /\ \A r \in DOMAIN loc.current_speeds :
                 CycleTargets[r] >= loc.current_speeds[r]
                    => loc.targets[r] = CycleTargets[r]

\* C6 (as claimed): at the end of every cycle whose sensor snapshot is
\* available and valid, consecutive_failures is 0.
C6_SuccessResets == SensorCycleValid => consecutive_failures = 0

\* A returned cycle in which the current fan speeds could not be read
SpeedsReadFailed == SensorCycleValid /\ loc.speeds_read = "failed"

-----------------------------------------------------------------------------
(* SpeedPolicy on its own: calculate_fan_speed called with arbitrary role      *)
(* temperatures and current speeds, as a caller of the class may              *)

\* governing temperatures, in degrees: below the hysteresis threshold, inside
\* the window of each other and outside it, around ramp_start, at emergency
PolicyTemps == { Deg(40), Deg(41), Deg(44), Deg(48), Deg(50), Deg(52), Deg(65) }
\* current speeds read back (None: not known)
PolicySpeeds == { None, 0, 20, 25, 50, 100 }
\* the inputs tried for each role
PolicyInputs(r) ==
    IF r = "cpu" THEN PolicyTemps \X PolicySpeeds ELSE { << Deg(52), 20 >> }

\* What the harness remembers of a role's evaluations, independently of
\* role_state: prev is the temperature of the previous evaluation, prev_eval
\* that of the previous evaluation that got past the emergency and adaptive
\* checks; run counts the latest evaluations in a row with base < current and
\* the temperature within the window of prev; credit counts the latest
\* evaluations in a row that passed the stability test of their branch, since
\* the last step down
TrackInit == [ prev |-> None, prev_eval |-> None, run |-> 0, credit |-> 0 ]

InitPolicy ==
    /\ enable = [ f \in Fans |-> "2" ]
    /\ pwm = [ f \in Fans |-> PercentToPwm(20) ]
    /\ cpu_auto = FALSE
    /\ check_interval_ok = TRUE
    /\ injected = FALSE
    /\ original_pwm_mode = [ f \in Fans |-> NoMode ]
    /\ last_change_ts = 0
    /\ consecutive_failures = 0
    /\ emergency_shutdown = FALSE
    /\ last_target_speeds_by_role = EmptyMap
    /\ hist = HistInit
    /\ role_state = RoleStateInit
    /\ adaptive_enabled \in BOOLEAN
    /\ pc = "policy_harness"
    /\ idx = 1
    /\ loc = LocInit
    /\ now = StartTime
    /\ cycles = 0
    /\ signals = 0
    /\ sensor_fail_run = 0
    /\ restored = FALSE
    /\ writes = << >>
    /\ call = [ n |-> 0, track |-> [ r \in Roles |-> TrackInit ] ]

\* One call policy.calculate_fan_speed(role, target_temp, current_speed)
Evaluate(role, target_temp, current_speed) ==
    /\ pc = "policy_harness"
    /\ LET st == role_state[role]
           res == CalculateFanSpeed(st, target_temp, current_speed)
           base == BaseTarget(target_temp, current_speed)
           cur == IF current_speed # None THEN current_speed ELSE base
           tr == call.track[role]
           smoothed == adaptive_enabled /\ target_temp < emergency_temp
           within == tr.prev = None \/ Abs(target_temp - tr.prev) <= temp_window
           delta == IF tr.prev_eval = None THEN 0 ELSE target_temp - tr.prev_eval
           passed == \/ base < cur /\ (delta <= 0 \/ Abs(delta) <= temp_window)
                     \/ base = cur /\ Abs(delta) <= temp_window
           run == IF smoothed /\ base < cur /\ within
                  THEN Min(tr.run + 1, stable_cycles_required) ELSE 0
           credit == IF ~ smoothed THEN tr.credit
                     ELSE IF passed THEN Min(tr.credit + 1, stable_cycles_required)
                     ELSE 0
           \* a step down: the answer is below the current speed as the final
           \* clamp to max_fan_speed leaves it
           lowered == res.speed < Min(cur, max_fan_speed)
       IN  /\ role_state' = [ role_state EXCEPT ![role] = res.state ]
           /\ call' = [ n        |-> 1,
                        role     |-> role,
                        temp     |-> target_temp,
                        current  |-> cur,
                        base     |-> base,
                        speed    |-> res.speed,
                        before   |-> st,
                        smoothed |-> smoothed,
                        outside  |-> ~ within,
                        rise     |-> delta > temp_window,
                        run      |-> run,
                        credit   |-> credit,
                        track    |-> [ call.track EXCEPT ![role] =
                                        [ prev      |-> target_temp,
                                          prev_eval |-> IF smoothed THEN target_temp
                                                        ELSE tr.prev_eval,
                                          run       |-> run,
                                          credit    |-> IF smoothed /\ lowered
                                                        THEN 0 ELSE credit ] ] ]
    /\ UNCHANGED << enable, pwm, cpu_auto, check_interval_ok, injected,
                    original_pwm_mode, last_change_ts, consecutive_failures,
                    emergency_shutdown, last_target_speeds_by_role, hist,
                    adaptive_enabled, pc, idx, loc, now, cycles, signals,
                    sensor_fail_run, restored, writes >>

NextPolicy ==
    \E role \in Roles : \E in \in PolicyInputs(role) : Evaluate(role, in[1], in[2])

SpecPolicy == InitPolicy /\ [][NextPolicy]_vars

\* C9: every evaluation with temp >= emergency_temp returns max_fan_speed,
\* for every current speed, every prior role state, adaptive enabled or not.
C9_EmergencyMax ==
    (call.n > 0 /\ call.temp >= emergency_temp) => call.speed = max_fan_speed

\* C9 witness: an emergency evaluation of a role that holds stability credit
\* and whose base curve, for its current speed, is below max_fan_speed.
C9_Witness ==
    /\ call.n > 0
    /\ call.temp >= emergency_temp
    /\ call.before.present
    /\ call.before.stable_cycles >= 1
    /\ call.base < max_fan_speed

-----------------------------------------------------------------------------
(* The pure functions of SpeedPolicy and SafetyManager, called directly *)

\* temperatures from 43 to 72 degrees in half-degree steps
CurveTemps == Deg(43) .. Deg(72)
\* current percentages handed to _target_percent
CurvePercents == { 0, 20, 21, 50 }
\* max_speed arguments of _target_percent: the configured one and 100
CurveMaxSpeeds == { max_fan_speed, 100 }
\* current speeds read back from the hardware, 0..100
HardwareSpeeds == { 0, 10, 20, 50, 88, 95, 100 }
\* seconds since the last successful speed write when a cycle reaches the
\* dispatch: one check_interval, or a full min_change_interval
PipelineElapsed == { check_interval, min_change_interval }
\* temperatures of the pipeline: cool, in the ramp, at emergency
PipelineTemps == { Deg(40), Deg(52), Deg(60), Deg(65) }
\* arguments of clamp_floor_when_lowering (None: the role is not in the dict)
ClampTargets == { 32, 40, 41, 60 }
ClampPercents == { None, 0, 49, 50 }
ClampRpms == { None, 0, 1000, 1225 }
\* max_temp arguments of handle_critical_temperature, around critical_temp
SafetyTemps == { Deg(40), Deg(94), Deg(95) - 1, Deg(95), Deg(96), Deg(151) }

InitFunctions ==
    /\ enable \in { [ f \in Fans |-> "1" ], [ f \in Fans |-> "2" ] }
    /\ pwm = [ f \in Fans |-> PercentToPwm(20) ]
    /\ cpu_auto = FALSE
    /\ check_interval_ok = TRUE
    /\ injected = FALSE
    /\ original_pwm_mode = [ f \in Fans |-> NoMode ]
    /\ last_change_ts = 0
    /\ consecutive_failures = 0
    /\ emergency_shutdown = FALSE
    /\ last_target_speeds_by_role = EmptyMap
    /\ hist = HistInit
    /\ role_state = RoleStateInit
    /\ adaptive_enabled \in BOOLEAN
    /\ pc = "function_harness"
    /\ idx = 1
    /\ loc = LocInit
    /\ now = StartTime
    /\ cycles = 0
    /\ signals = 0
    /\ sensor_fail_run = 0
    /\ restored = FALSE
    /\ writes = << >>
    /\ call = [ fn |-> "none" ]

\* Each behaviour is one call of one function on a fresh object.
\* What such a call leaves alone:
functionFrame ==
    << pwm, cpu_auto, check_interval_ok, injected, original_pwm_mode,
       last_change_ts, consecutive_failures, emergency_shutdown,
       last_target_speeds_by_role, hist, role_state, adaptive_enabled, pc, idx,
       loc, now, cycles, signals, sensor_fail_run, writes >>

\* speed_map values handed to set_fan_speeds_by_role: every percentage and
\* one value beyond each end
WrittenPercents == -1 .. 101

\* A dict with the one key "cpu", or the empty dict for None
RoleDict(v) == IF v = None THEN EmptyMap ELSE [ r \in { "cpu" } |-> v ]

\* _target_percent(target_temp, current_percent, hysteresis, max_speed)
EvalCurve ==
    /\ pc = "function_harness"
    /\ call.fn = "none"
    /\ \E target_temp \in CurveTemps, current_percent \in CurvePercents,
          max_speed \in CurveMaxSpeeds :
          call' = [ fn      |-> "curve",
                    temp    |-> target_temp,
                    current |-> current_percent,
                    max     |-> max_speed,
                    out     |-> TargetPercent(target_temp, current_percent,
                                              hysteresis, max_speed) ]
    /\ UNCHANGED << enable, restored >>
    /\ UNCHANGED functionFrame

\* _target_percent at two temperatures, temp1 <= temp2, same current_percent
EvalCurvePair ==
    /\ pc = "function_harness"
    /\ call.fn = "none"
    /\ \E temp1 \in CurveTemps, temp2 \in CurveTemps, current_percent \in CurvePercents :
          /\ temp1 <= temp2
          /\ call' = [ fn      |-> "curve_pair",
                       temp1   |-> temp1,
                       temp2   |-> temp2,
                       current |-> current_percent,
                       out1    |-> TargetPercent(temp1, current_percent,
                                                 hysteresis, max_fan_speed),
                       out2    |-> TargetPercent(temp2, current_percent,
                                                 hysteresis, max_fan_speed) ]
    /\ UNCHANGED << enable, restored >>
    /\ UNCHANGED functionFrame

\* clamp_floor_when_lowering({cpu: target}, {cpu: cur_pct}, {cpu: cur_rpm})
EvalClamp ==
    /\ pc = "function_harness"
    /\ call.fn = "none"
    /\ \E target \in ClampTargets, cur_pct \in ClampPercents, cur_rpm \in ClampRpms :
          call' = [ fn      |-> "clamp",
                    target  |-> target,
                    current |-> cur_pct,
                    rpm     |-> cur_rpm,
                    out     |-> ClampFloorWhenLowering(RoleDict(target),
                                    RoleDict(cur_pct), RoleDict(cur_rpm))["cpu"] ]
    /\ UNCHANGED << enable, restored >>
    /\ UNCHANGED functionFrame

\* The steps of run_cycle from the policy call to the map handed to
\* set_fan_speeds_by_role (controller.py:145-149, 169), on a fresh SpeedPolicy
\* whose call binds, and the decision whether set_fan_speeds_by_role is
\* called with it (controller.py:162-169); elapsed: time.time() minus
\* last_change_ts
EvalPipeline ==
    /\ pc = "function_harness"
    /\ call.fn = "none"
    /\ \E target_temp \in PipelineTemps, current_speed \in HardwareSpeeds,
          cur_rpm \in RpmVals, elapsed \in PipelineElapsed :
          LET current_speeds == RoleDict(current_speed)
              current_rpms == RoleDict(cur_rpm)
              target_speeds ==
                  RoleDict(CalculateFanSpeed(NoState, target_temp, current_speed).speed)
              floored == ApplyRpmFloors(target_speeds, current_speeds, current_rpms)
              clamped == ClampFloorWhenLowering(floored, current_speeds, current_rpms)
              smooth == SmoothTargets(clamped, current_speeds)
          IN  call' = [ fn         |-> "pipeline",
                        temp       |-> target_temp,
                        current    |-> current_speed,
                        rpm        |-> cur_rpm,
                        calculated |-> target_speeds["cpu"],
                        clamped    |-> clamped["cpu"],
                        handed     |-> smooth["cpu"],
                        elapsed    |-> elapsed,
                        set_called |-> /\ WantsChange(smooth, current_speeds)
                                       /\ ~ TooSoon(now, now - elapsed) ]
    /\ UNCHANGED << enable, restored >>
    /\ UNCHANGED functionFrame

\* SafetyManager.handle_critical_temperature(max_temp)
EvalSafety ==
    /\ pc = "function_harness"
    /\ call.fn = "none"
    /\ \E max_temp \in SafetyTemps :
          IF CriticalTrip(max_temp)
          THEN /\ enable' = RestoreAutomaticMode(original_pwm_mode, enable)
               /\ restored' = TRUE
               /\ call' = [ fn |-> "safety", max_temp |-> max_temp, ret |-> TRUE,
                            restore_calls |-> 1, slept |-> critical_sleep ]
          ELSE /\ UNCHANGED << enable, restored >>
               /\ call' = [ fn |-> "safety", max_temp |-> max_temp, ret |-> FALSE,
                            restore_calls |-> 0, slept |-> 0 ]
    /\ UNCHANGED functionFrame

\* FanIO.restore_automatic_mode() called with the enable paths in failing
\* not writable
EvalRestore ==
    /\ pc = "function_harness"
    /\ call.fn = "none"
    /\ \E failing \in SUBSET Fans :
          LET r == RestoreWithFailures(original_pwm_mode, enable, failing)
          IN  /\ enable' = r.enable
              /\ restored' = TRUE
              /\ call' = [ fn |-> "restore", failing |-> failing, ret |-> r.ret,
                           raised |-> r.raised, recorded |-> r.recorded ]
    /\ UNCHANGED functionFrame

\* set_fan_speeds_by_role({every role: percent}, roles) with every write
\* succeeding, then get_current_speed_by_role(roles) with every read
\* succeeding, as the next cycle calls it (fan_io.py:117-143, 83-97)
EvalRoundTrip ==
    /\ pc = "function_harness"
    /\ call.fn = "none"
    /\ \E percent \in WrittenPercents :
          LET speed_map == [ r \in Roles |-> percent ]
          IN  /\ pwm' = SetFanSpeedsPwm(speed_map, Roles, {})
              /\ last_change_ts' = IF SetFanSpeedsOk(speed_map, Roles, {})
                                   THEN now ELSE last_change_ts
              /\ call' = [ fn      |-> "roundtrip",
                           percent |-> percent,
                           read    |-> GetCurrentSpeedByRole(Roles, Fans)' ]
    /\ UNCHANGED << enable, restored, cpu_auto, check_interval_ok, injected,
                    original_pwm_mode, consecutive_failures, emergency_shutdown,
                    last_target_speeds_by_role, hist, role_state,
                    adaptive_enabled, pc, idx, loc, now, cycles, signals,
                    sensor_fail_run, writes >>

NextFunctions ==
    \/ EvalRoundTrip
    \/ EvalRestore
    \/ EvalCurve
    \/ EvalCurvePair
    \/ EvalClamp
    \/ EvalPipeline
    \/ EvalSafety

SpecFunctions == InitFunctions /\ [][NextFunctions]_vars

\* A speed percentage within the configured range
InRange(p) == curve_min_speed <= p /\ p <= max_fan_speed

\* C11 (as claimed): the result of calculate_fan_speed, the target left by
\* clamp_floor_when_lowering and the value handed to set_fan_speeds_by_role
\* all lie in [curve_min_speed, max_fan_speed], for every current speed in
\* 0..100 and every RPM reading.
C11_SpeedsInRange ==
    call.fn = "pipeline"
        => InRange(call.calculated) /\ InRange(call.clamped) /\ InRange(call.handed)

\* C12 (as claimed): clamp_floor_when_lowering answers the current percentage
\* exactly when target < current, current percent and RPM are known and
\* positive and current_rpm * target / current_percent is strictly below
\* rpm_ignore_floor; in every other case it answers the target.
C12_VetoBelowFloor ==
    call.fn = "clamp"
        => LET veto == /\ call.current # None
                       /\ call.current > 0
                       /\ call.rpm # None
                       /\ call.rpm > 0
                       /\ call.target < call.current
                       /\ call.rpm * call.target < rpm_ignore_floor * call.current
           IN  call.out = IF veto THEN call.current ELSE call.target

C14_Monotone ==
    (call.fn = "curve_pair" /\ call.temp1 <= call.temp2) => call.out1 <= call.out2

\* C14 witness: two temperatures inside the ramp with hysteresis applied, the
\* higher one in the stretch where the ratio is clamped, gave different
\* percentages.
C14_Witness ==
    /\ call.fn = "curve_pair"
    /\ call.current > curve_min_speed
    /\ call.temp1 < call.temp2
    /\ call.temp2 >= ramp_start - hysteresis + ramp_range
    /\ call.temp2 < ramp_start + ramp_range
    /\ call.out1 < call.out2

\* C15: handle_critical_temperature returns True exactly when max_temp >=
\* critical_temp; a call that returns True has invoked restore_automatic_mode
\* exactly once and left every enable file as that call leaves it, a call
\* that returns False has not invoked it.
C15_TripExactly ==
    call.fn = "safety"
        => /\ call.ret <=> (call.max_temp >= critical_temp)
           /\ call.restore_calls = (IF call.ret THEN 1 ELSE 0)
           /\ call.ret => enable = RestoreAutomaticMode(original_pwm_mode, enable)

\* C15 witness: a call at exactly critical_temp has tripped.
C15_Witness ==
    /\ call.fn = "safety"
    /\ call.max_temp = critical_temp
    /\ call.ret
    /\ call.restore_calls = 1
    /\ restored

-----------------------------------------------------------------------------
(* TemperatureHistory on its own: update called with arbitrary snapshots,     *)
(* sensors reporting intermittently, the empty snapshot included             *)

\* whole-degree readings; their mean is not a whole degree
HistoryVals == { 40, 61 }
\* the snapshots handed to update
HistorySnapshots == PartialMaps(Sensors, HistoryVals)

\* What the harness remembers next to the history: updates counts the update
\* calls; stamps is a history fed the cycle number in place of each reading,
\* so that stamps.samples[s][i] is the cycle in which hist.samples[s][i] was
\* appended; reported[s] holds the values reported for s since it was last
\* admitted; absent[s] counts the latest update calls in a row without s,
\* absent_nonempty[s] those of them that carried a reading; before is the
\* history as the latest update call found it and empty tells that its
\* snapshot was empty; reads counts the averaged() calls made since, avg is
\* the result of the latest of them and first_avg that of the first; targets
\* holds the governing temperature of each role computed from the averages
HistoryTrackInit ==
    [ fn              |-> "history",
      updates         |-> 0,
      stamps          |-> HistInit,
      reported        |-> [ s \in Sensors |-> << >> ],
      absent          |-> [ s \in Sensors |-> 0 ],
      absent_nonempty |-> [ s \in Sensors |-> 0 ],
      before_keys     |-> {},
      avg             |-> EmptyMap,
      before          |-> HistInit,
      empty           |-> FALSE,
      reads           |-> 0,
      first_avg       |-> EmptyMap,
      targets         |-> [ r \in Roles |-> 0 ] ]

InitHistory ==
    /\ enable = [ f \in Fans |-> "2" ]
    /\ pwm = [ f \in Fans |-> PercentToPwm(20) ]
    /\ cpu_auto = FALSE
    /\ check_interval_ok = TRUE
    /\ injected = FALSE
    /\ original_pwm_mode = [ f \in Fans |-> NoMode ]
    /\ last_change_ts = 0
    /\ consecutive_failures = 0
    /\ emergency_shutdown = FALSE
    /\ last_target_speeds_by_role = EmptyMap
    /\ hist = HistInit
    /\ role_state = RoleStateInit
    /\ adaptive_enabled = TRUE
    /\ pc = "history_harness"
    /\ idx = 1
    /\ loc = LocInit
    /\ now = StartTime
    /\ cycles = 0
    /\ signals = 0
    /\ sensor_fail_run = 0
    /\ restored = FALSE
    /\ writes = << >>
    /\ call = HistoryTrackInit

\* One call update(temperatures), followed by averaged() and by
\* target_temp_for_role on the averages for every role, as run_cycle calls them
\* (controller.py:131-134)
HistoryUpdate(temperatures) ==
    /\ pc = "history_harness"
    /\ call.updates < MaxUpdates
    /\ LET seen == DOMAIN temperatures
           h == HistUpdate(hist, temperatures)
           stamp == [ s \in seen |-> hist.cycle + 1 ]
       IN  /\ hist' = h
           /\ call' = [ fn              |-> "history",
                        updates         |-> call.updates + 1,
                        stamps          |-> HistUpdate(call.stamps, stamp),
                        reported        |-> [ s \in Sensors |->
                                               IF s \in seen
                                               THEN IF s \in hist.keys
                                                    THEN Append(call.reported[s],
                                                                temperatures[s])
                                                    ELSE << temperatures[s] >>
                                               ELSE IF s \in h.keys
                                                    THEN call.reported[s]
                                                    ELSE << >> ],
                        absent          |-> [ s \in Sensors |->
                                               IF s \in seen THEN 0
                                               ELSE call.absent[s] + 1 ],
                        absent_nonempty |-> [ s \in Sensors |->
                                               IF s \in seen THEN 0
                                               ELSE IF seen = {}
                                                    THEN call.absent_nonempty[s]
                                                    ELSE call.absent_nonempty[s] + 1 ],
                        before_keys     |-> hist.keys,
                        avg             |-> Averaged(h),
                        before          |-> hist,
                        empty           |-> seen = {},
                        reads           |-> 0,
                        first_avg       |-> Averaged(h),
                        targets         |-> [ r \in Roles |->
                                               TargetTempForRole(r, Averaged(h)) ] ]
    /\ UNCHANGED << enable, pwm, cpu_auto, check_interval_ok, injected,
                    original_pwm_mode, last_change_ts, consecutive_failures,
                    emergency_shutdown, last_target_speeds_by_role, role_state,
                    adaptive_enabled, pc, idx, loc, now, cycles, signals,
                    sensor_fail_run, restored, writes >>

\* One more call averaged() with no update since the last one: it reads
\* _samples and builds a new dict (temperature.py:38-46)
HistoryAveraged ==
    /\ pc = "history_harness"
    /\ call.updates >= 1
    /\ call.reads < MaxReads
    /\ call' = [ call EXCEPT !.reads = @ + 1, !.avg = Averaged(hist) ]
    /\ UNCHANGED << enable, pwm, cpu_auto, check_interval_ok, injected,
                    original_pwm_mode, last_change_ts, consecutive_failures,
                    emergency_shutdown, last_target_speeds_by_role, hist,
                    role_state, adaptive_enabled, pc, idx, loc, now, cycles,
                    signals, sensor_fail_run, restored, writes >>

NextHistory ==
    \/ \E temperatures \in HistorySnapshots : HistoryUpdate(temperatures)
    \/ HistoryAveraged

SpecHistory == InitHistory /\ [][NextHistory]_vars

\* C16 (as claimed): no sample that contributes to an average was recorded
\* more than averaging_samples update cycles ago.
C16_NoStaleSample ==
    \A s \in DOMAIN call.avg :
        \A i \in 1 .. Len(call.stamps.samples[s]) :
            hist.cycle - call.stamps.samples[s][i] <= averaging_samples

\* C17 (as claimed): a sensor absent from averaging_samples + 1 consecutive
\* update calls, whatever they carry, is absent from averaged() afterwards.
C17_AbsentDropped ==
    \A s \in Sensors :
        call.absent[s] >= averaging_samples + 1 => s \notin DOMAIN call.avg

\* C17 (amended): a sensor absent from averaging_samples consecutive update
\* calls that each carry at least one reading is absent from averaged()
\* afterwards; update calls with an empty snapshot change nothing and do not
\* count.
C17_AbsentFromReadingsDropped ==
    \A s \in Sensors :
        call.absent_nonempty[s] >= averaging_samples
            => s \notin DOMAIN call.avg /\ s \notin hist.keys

\* C17 witness: a retained sensor has just been dropped by the
\* averaging_samples-th update in a row that carried readings but not it,
\* with an empty snapshot in between.
C17_Witness ==
    \E s \in call.before_keys :
        /\ s \notin hist.keys
        /\ s \notin DOMAIN call.avg
        /\ call.absent_nonempty[s] = averaging_samples
        /\ call.absent[s] > averaging_samples

\* C19: every sensor the history retains holds at least one and at most
\* averaging_samples samples.
C19_WindowBounded ==
    \A s \in hist.keys :
        1 <= Len(hist.samples[s]) /\ Len(hist.samples[s]) <= averaging_samples

\* C19 witness: a sensor that has reported more than averaging_samples times
\* in a row holds a full window while another holds a single sample.
C19_Witness ==
    \E s \in hist.keys, t \in hist.keys :
        /\ Len(call.reported[s]) > averaging_samples
        /\ Len(hist.samples[s]) = averaging_samples
        /\ Len(hist.samples[t]) = 1

\* The last n elements of a sequence
LastN(seq, n) == SubSeq(seq, Len(seq) - n + 1, Len(seq))

\* C20: averaged() has exactly the retained sensors, and for each of them the
\* arithmetic mean of the most recent min(k, averaging_samples) values reported
\* since it was last admitted, k being the number of updates that contained it.
C20_MeanOfRecent ==
    /\ DOMAIN call.avg = hist.keys
    /\ \A s \in hist.keys :
          LET k == Len(call.reported[s])
              m == Min(k, averaging_samples)
              recent == LastN(call.reported[s], m)
          IN  /\ k >= 1
              /\ hist.samples[s] = recent
              /\ call.avg[s] * m = SumSeq(recent) * TempDen

\* C20 witness: one sensor is averaged over a single sample, another over the
\* last two of at least three differing values reported since it was admitted
\* with a gap.
C20_Witness ==
    \E s \in hist.keys, t \in hist.keys :
        /\ Len(call.reported[s]) = 1
        /\ Len(call.reported[t]) >= 3
        /\ call.reported[t][Len(call.reported[t])]
              # call.reported[t][Len(call.reported[t]) - 1]
        /\ call.updates > Len(call.reported[t])

-----------------------------------------------------------------------------
(* The per-role adaptive state *)

\* C18: in every reachable policy state each role's stable_cycles lies
\* between 0 and 3 * adaptive_stable_cycles.
C18_StableCyclesCapped ==
    \A r \in Roles :
        /\ 0 <= role_state[r].stable_cycles
        /\ role_state[r].stable_cycles <= 3 * stable_cycles_required

\* C18 witness: an evaluation that passed the stability test found the role
\* at the cap and left it there.
C18_Witness ==
    /\ call.n > 0
    /\ call.smoothed
    /\ call.before.present
    /\ call.before.stable_cycles = 3 * stable_cycles_required
    /\ role_state[call.role].stable_cycles = 3 * stable_cycles_required

-----------------------------------------------------------------------------
(* Properties of TemperatureHistory.averaged and of the empty update *)

-----------------------------------------------------------------------------
(* Properties of the emergency override through the rest of the cycle *)

\* C22 (as claimed): in a cycle whose governing temperature for a role is at
\* or above emergency_temp, max_fan_speed is the value handed to
\* set_fan_speeds_by_role for that role and the call is made in that cycle
\* (unless the fans already stand at max_fan_speed): neither the RPM-floor
\* clamp nor the min_speed_change threshold nor the min_change_interval rate
\* limit suppresses or alters it.
C22_EmergencyWritten ==
    (call.fn = "pipeline" /\ IsEmergency(call.temp)) =>
        /\ call.handed = max_fan_speed
        /\ call.set_called \/ call.current = max_fan_speed

-----------------------------------------------------------------------------
(* Properties of the branches of calculate_fan_speed *)

\* stable_cycles as the last evaluation found it (state.get('stable_cycles', 0)
\* after setdefault, policy.py:76-88)
CallStableCycles == IF call.before.present THEN call.before.stable_cycles ELSE 0
\* delta_temp of the last evaluation (policy.py:85-86); a role without state
\* gets last_temp = target_temp from setdefault
CallDeltaTemp == IF call.before.present THEN call.temp - call.before.last_temp ELSE 0
\* stable_cycles after the window test of the declining branch, as the
\* declining case describes it
CallCounted ==
    IF CallDeltaTemp <= 0 \/ Abs(CallDeltaTemp) <= temp_window
    THEN Min(CallStableCycles + 1, 3 * stable_cycles_required)
    ELSE 0
\* The last evaluation went through the adaptive part and took the declining,
\* rising or equal branch
Declining == call.n > 0 /\ call.smoothed /\ call.base < call.current
Rising == call.n > 0 /\ call.smoothed /\ call.base > call.current
Equal == call.n > 0 /\ call.smoothed /\ call.base = call.current

\* The declining case with the result limited to top: a step down to
\* max(current - drop_step, base) with stable_cycles reset when the counted
\* stable_cycles reach the requirement and temp <= ramp_start, otherwise the
\* current speed with the counted stable_cycles kept
DecliningCase(top) ==
    Declining =>
        IF CallCounted >= stable_cycles_required /\ call.temp <= ramp_start
        THEN /\ call.speed = Min(top, Max(call.current - drop_step, call.base))
             /\ role_state[call.role].stable_cycles = 0
        ELSE /\ call.speed = Min(top, call.current)
             /\ role_state[call.role].stable_cycles = CallCounted

\* C23 (as claimed): in the declining case stable_cycles is incremented
\* (capped) if delta_temp <= 0 or |delta_temp| <= adaptive_temp_window and
\* reset otherwise; then with stable_cycles >= adaptive_stable_cycles and
\* temp <= ramp_start the result is max(current - adaptive_drop_step, base)
\* and stable_cycles is reset; otherwise the result equals current.
C23_Declining == DecliningCase(100)

\* C23 (amended): as claimed, with the result limited to max_fan_speed: the
\* step down yields min(max_fan_speed, max(current - adaptive_drop_step,
\* base)) and the hold yields min(max_fan_speed, current), which is below
\* current when the fans are found above max_fan_speed.
C23_DecliningClamped == DecliningCase(max_fan_speed)

\* C23 witness: a declining evaluation that completed the required stable
\* cycles at temp <= ramp_start stepped down by drop_step to a speed still
\* above base and reset stable_cycles.
C23_Witness ==
    /\ Declining
    /\ CallStableCycles = stable_cycles_required - 1
    /\ call.speed = call.current - drop_step
    /\ call.speed > call.base
    /\ role_state[call.role].stable_cycles = 0

\* C24 (as claimed): in the rising case stable_cycles is reset to 0; the
\* result is base when delta_temp >= adaptive_temp_aggressive or temp >=
\* ramp_start, and otherwise a step toward base that exceeds current by at
\* most adaptive_raise_step and never exceeds base.
C24_Rising ==
    Rising =>
        /\ role_state[call.role].stable_cycles = 0
        /\ IF CallDeltaTemp >= temp_aggressive \/ call.temp >= ramp_start
           THEN call.speed = call.base
           ELSE /\ call.speed > call.current
                /\ call.speed - call.current <= raise_step
                /\ call.speed <= call.base

\* C24 (amended): as claimed, except that the step is min(base, current +
\* adaptive_raise_step) raised to curve_min_speed: it never exceeds base, and
\* it exceeds current by at most adaptive_raise_step unless current +
\* adaptive_raise_step is below curve_min_speed, where it is curve_min_speed.
C24_RisingFromMinimum ==
    Rising =>
        /\ role_state[call.role].stable_cycles = 0
        /\ IF CallDeltaTemp >= temp_aggressive \/ call.temp >= ramp_start
           THEN call.speed = call.base
           ELSE /\ call.speed = Max(curve_min_speed,
                                    Min(call.base, call.current + raise_step))
                /\ call.speed > call.current
                /\ call.speed <= call.base
                /\ call.current + raise_step >= curve_min_speed
                      => call.speed - call.current <= raise_step

\* C24 witness: a rising evaluation below ramp_start, of a role that held
\* stable cycles and whose temperature did not rise by temp_aggressive,
\* stepped up by raise_step to a speed still below base.
C24_Witness ==
    /\ Rising
    /\ CallStableCycles >= 1
    /\ CallDeltaTemp < temp_aggressive
    /\ call.temp < ramp_start
    /\ call.speed = call.current + raise_step
    /\ call.speed < call.base

\* C25 (as claimed): in the equal case stable_cycles is updated by the
\* window test of the declining case - incremented (capped) if delta_temp <=
\* 0 or |delta_temp| <= adaptive_temp_window, reset to 0 otherwise - and the
\* returned speed equals current.
C25_EqualSameTest ==
    Equal =>
        /\ call.speed = call.current
        /\ role_state[call.role].stable_cycles = CallCounted

\* C26 (as claimed): after every evaluation of a role with adaptive smoothing
\* enabled, on every branch, the role's state holds last_temp equal to the
\* temperature just evaluated and last_speed equal to the speed returned.
C26_StateRecorded ==
    (call.n > 0 /\ adaptive_enabled) =>
        /\ role_state[call.role].present
        /\ role_state[call.role].last_temp = call.temp
        /\ role_state[call.role].last_speed = call.speed

-----------------------------------------------------------------------------
(* Properties of signal delivery and of the sensor-failure cycle *)

\* The main thread is inside run_cycle (controller.py:108-172)
InIteration == pc \in { "sense", "update", "speeds", "policy" }

\* C27 (as claimed): a termination signal delivered while an iteration is in
\* progress only sets the shutdown flag: the iteration stays where it is with
\* its locals and goes on from there, and the enable files are not touched by
\* the delivery.
C27_NoPreemption ==
    [][ (signals' # signals /\ InIteration)
            => /\ emergency_shutdown'
               /\ pc' = pc
               /\ loc' = loc
               /\ enable' = enable ]_vars

\* C28 (as claimed): a restore_automatic_mode call in which the write of an
\* enable path failed tells its caller so, by its return value, by an
\* exception or by an error state recorded on the object, and so differs for
\* the caller from a restore that succeeded.
C28_RestoreFailureSurfaced ==
    (call.fn = "restore" /\ call.failing # {}) =>
        call.ret # None \/ call.raised \/ call.recorded

\* C29: a cycle that fails on unavailable or invalid sensor data adds one to
\* the failure counter, restores the modes only when the counter reaches
\* max_failures, and leaves the temperature history, every role's adaptive
\* state, last_change_ts, last_target_speeds_by_role and the fan speeds as
\* they were.
C29_SensorFailureFrame ==
    [][ (pc = "sense" /\ pc' = "returned"
            /\ loc'.sense \in { "unavailable", "invalid" })
            => /\ consecutive_failures' = consecutive_failures + 1
               /\ hist' = hist
               /\ role_state' = role_state
               /\ last_change_ts' = last_change_ts
               /\ last_target_speeds_by_role' = last_target_speeds_by_role
               /\ pwm' = pwm
               /\ writes' = writes
               /\ loc'.set_called = FALSE
               /\ loc'.restore_calls =
                      (IF consecutive_failures' >= max_failures THEN 1 ELSE 0)
               /\ consecutive_failures' < max_failures => enable' = enable ]_vars

\* C29 witness: a cycle has failed on invalid sensor data below the failure
\* threshold, after earlier cycles filled the history and wrote fan speeds.
C29_Witness ==
    /\ Returned
    /\ loc.sense = "invalid"
    /\ loc.ret = "True"
    /\ consecutive_failures = 1
    /\ hist.keys # {}
    /\ last_target_speeds_by_role # EmptyMap
    /\ writes # << >>

-----------------------------------------------------------------------------
(* Properties of the per-role governing temperature *)

\* v is the maximum of the averages m over the sensors S: the average of one
\* of them and not below that of any
IsMaxOver(v, m, S) ==
    /\ \E s \in S : m[s] = v
    /\ \A s \in S : m[s] <= v

\* The sensors with an average that critical_sensors_by_role maps to role r
MappedAveraged(r) ==
    IF r \in DOMAIN critical_sensors_by_role
    THEN DOMAIN call.avg \cap critical_sensors_by_role[r]
    ELSE {}

\* C30 (as claimed): for each role the governing temperature is the maximum
\* averaged temperature over the sensors mapped to the role by
\* critical_sensors_by_role, and the maximum over all sensors when the role has
\* no mapping configured.
C30_GoverningTemp ==
    (call.updates >= 1 /\ DOMAIN call.avg # {}) =>
        \A r \in Roles :
            IsMaxOver(call.targets[r], call.avg,
                      IF r \in DOMAIN critical_sensors_by_role
                      THEN MappedAveraged(r) ELSE DOMAIN call.avg)

\* C30 (amended): for each role the governing temperature is the maximum
\* averaged temperature over the sensors mapped to the role that have an
\* average; it is the maximum over all sensors when the role has no mapping
\* configured and also when none of its mapped sensors has an average.
C30_GoverningTempWithFallback ==
    (call.updates >= 1 /\ DOMAIN call.avg # {}) =>
        \A r \in Roles :
            IsMaxOver(call.targets[r], call.avg,
                      IF MappedAveraged(r) # {}
                      THEN MappedAveraged(r) ELSE DOMAIN call.avg)

\* C30 witness: the sensor mapped to the cpu role averages below the other
\* sensor; the cpu role is governed by its own sensor and the case role, which
\* has no mapping, by the hotter one.
C30_Witness ==
    /\ call.updates >= 1
    /\ DOMAIN call.avg = { "s1", "s2" }
    /\ call.avg["s1"] < call.avg["s2"]
    /\ call.targets["cpu"] = call.avg["s1"]
    /\ call.targets["case"] = call.avg["s2"]

-----------------------------------------------------------------------------
(* Properties of the percent / PWM conversion *)

\* C34: for every integer p in 0..100, _pwm_to_percent(_percent_to_pwm(p)) = p,
\* so that a speed written for the roles is read back unchanged as their
\* current speed; and every PWM value in the pwm files is in 0..255, whatever
\* value was handed to set_fan_speeds_by_role.
C34_RoundTrip ==
    /\ \A f \in Fans : pwm[f] \in 0 .. 255
    /\ call.fn = "roundtrip" =>
          LET p == Max(0, Min(100, call.percent))
          IN  /\ \A f \in Fans : pwm[f] = PercentToPwm(p)
              /\ PwmToPercent(PercentToPwm(p)) = p
              /\ call.read = [ r \in Roles |-> p ]

\* C34 witness: a percentage whose PWM value is not a whole multiple (1 % is
\* written as 2, which is 0.78 %) has been written and read back as itself.
C34_Witness ==
    /\ call.fn = "roundtrip"
    /\ call.percent = 1
    /\ \A f \in Fans : pwm[f] = 2
    /\ call.read = [ r \in Roles |-> 1 ]

-----------------------------------------------------------------------------
(* Properties of calculate_fan_speed in the ramp zone *)

\* The last evaluation was made with adaptive smoothing enabled at a
\* temperature at or above ramp_start
RampZone == call.n > 0 /\ adaptive_enabled /\ call.temp >= ramp_start

\* C33 (as claimed): with adaptive smoothing enabled and temp >= ramp_start
\* the result is never below the base-curve target; a rise is applied in full
\* in that evaluation and a decline is never applied: the result is never
\* below the current speed either.
C33_NoDeclineInRamp ==
    RampZone =>
        /\ call.speed >= call.base
        /\ call.speed >= call.current

\* C33 (amended): with adaptive smoothing enabled and temp >= ramp_start the
\* result is never below the base-curve target, and a rise is applied in full
\* in that evaluation; above ramp_start the result is never below the
\* current speed as limited to max_fan_speed, while at temp = ramp_start
\* exactly a step down toward base can still be applied.
C33_NeverBelowBase ==
    RampZone =>
        /\ call.speed >= call.base
        /\ (call.smoothed /\ call.base > call.current) => call.speed = call.base
        /\ call.temp > ramp_start => call.speed >= Min(call.current, max_fan_speed)
        /\ (call.smoothed /\ call.temp > ramp_start /\ call.base < call.current)
              => call.speed = Min(call.current, max_fan_speed)

\* C33 witness: above ramp_start and below emergency_temp, a role that holds
\* the stable cycles a step down requires and whose base target is below its
\* current speed is answered with the current speed.
C33_Witness ==
    /\ RampZone
    /\ call.smoothed
    /\ call.temp > ramp_start
    /\ call.base < call.current
    /\ CallStableCycles >= stable_cycles_required
    /\ call.speed = call.current


-----------------------------------------------------------------------------
(* SpeedPolicy in closed loop: calculate_fan_speed is called for the cpu role *)
(* again and again with one temperature, and the current speed of each call  *)
(* is the speed the previous call returned, as run_cycle reads back the      *)
(* speed it wrote in the previous cycle                                      *)

\* the constant temperatures tried: every half degree from below the
\* hysteresis threshold to above ramp_start, and inside the ramp, at
\* emergency_temp and above it
LoopTemps == Deg(43) .. Deg(53) \cup { Deg(60), Deg(65), Deg(70) }
\* the current speed of the first call (None: not known)
LoopSpeeds == { None, 0, 10, 20, 21, 25, 50, 88, 90, 100 }

InitLoop ==
    /\ enable = [ f \in Fans |-> "2" ]
    /\ pwm = [ f \in Fans |-> PercentToPwm(20) ]
    /\ cpu_auto = FALSE
    /\ check_interval_ok = TRUE
    /\ injected = FALSE
    /\ original_pwm_mode = [ f \in Fans |-> NoMode ]
    /\ last_change_ts = 0
    /\ consecutive_failures = 0
    /\ emergency_shutdown = FALSE
    /\ last_target_speeds_by_role = EmptyMap
    /\ hist = HistInit
    /\ role_state = RoleStateInit
    /\ adaptive_enabled \in BOOLEAN
    /\ pc = "loop_harness"
    /\ idx = 1
    /\ loc = LocInit
    /\ now = StartTime
    /\ cycles = 0
    /\ signals = 0
    /\ sensor_fail_run = 0
    /\ restored = FALSE
    /\ writes = << >>
    /\ \E target_temp \in LoopTemps : \E current_speed \in LoopSpeeds :
          call = [ n          |-> 0,
                   temp       |-> target_temp,
                   feed       |-> current_speed,
                   current    |-> 0,
                   base       |-> 0,
                   speed      |-> 0,
                   start      |-> 0,
                   start_base |-> 0,
                   count      |-> 0,
                   went_up    |-> FALSE,
                   went_down  |-> FALSE ]

\* One more call policy.calculate_fan_speed("cpu", temp, feed), whose result
\* is the current speed of the next call. start and start_base are the
\* current speed and the base target of the first call; count is the number
\* of calls made since the last step down of the state machine (or since the
\* first call), this one included; went_up and went_down tell whether a
\* result was ever above, or below, the current speed of its call.
LoopStep ==
    /\ pc = "loop_harness"
    /\ LET st == role_state["cpu"]
           res == CalculateFanSpeed(st, call.temp, call.feed)
           base == BaseTarget(call.temp, call.feed)
           cur == IF call.feed # None THEN call.feed ELSE base
           first == call.n = 0
           stepped == call.n > 0 /\ call.speed < Min(call.current, max_fan_speed)
           count == IF first \/ stepped THEN 1
                    ELSE Min(call.count + 1, stable_cycles_required)
       IN  /\ role_state' = [ role_state EXCEPT !["cpu"] = res.state ]
           /\ call' = [ n          |-> 1,
                        temp       |-> call.temp,
                        feed       |-> res.speed,
                        current    |-> cur,
                        base       |-> base,
                        speed      |-> res.speed,
                        start      |-> IF first THEN cur ELSE call.start,
                        start_base |-> IF first THEN base ELSE call.start_base,
                        count      |-> count,
                        went_up    |-> call.went_up \/ res.speed > cur,
                        went_down  |-> call.went_down \/ res.speed < cur ]
    /\ UNCHANGED << enable, pwm, cpu_auto, check_interval_ok, injected,
                    original_pwm_mode, last_change_ts, consecutive_failures,
                    emergency_shutdown, last_target_speeds_by_role, hist,
                    adaptive_enabled, pc, idx, loc, now, cycles, signals,
                    sensor_fail_run, restored, writes >>

NextLoop == LoopStep

SpecLoop == InitLoop /\ [][NextLoop]_vars

\* Controller.run makes one evaluation per cycle for as long as it runs
SpecLoopFair == SpecLoop /\ WF_vars(LoopStep)

\* The last call returned the current speed it was given
LoopConstant == call.n > 0 /\ call.speed = call.current

\* No result was above the current speed of its call if another was below
LoopOneDirection == ~ (call.went_up /\ call.went_down)

\* C31: in closed loop at a constant temperature the returned speed never
\* reverses direction (results never both rise above and fall below the
\* speed fed in) and is eventually constant: from some call on every call
\* returns the current speed it was given.
C31_NoOscillation == [] LoopOneDirection /\ <>[] LoopConstant

\* C31 witness: inside the hysteresis band (ramp_start - hysteresis < temp <=
\* ramp_start) a loop that came down has settled above curve_min_speed, on
\* the base target computed with the lowered threshold.
C31_Witness ==
    /\ LoopConstant
    /\ call.temp > ramp_start - hysteresis
    /\ call.temp <= ramp_start
    /\ call.went_down
    /\ call.speed > curve_min_speed
    /\ call.speed = call.base

\* The loop runs with adaptive smoothing at a temperature at or below
\* ramp_start and its first call had a current speed above its base target
LoopDeclining ==
    /\ call.n > 0
    /\ adaptive_enabled
    /\ call.temp <= ramp_start
    /\ call.start > call.start_base

\* The speed returned is the base target of the next call, which is given it
\* as its current speed
LoopAtBase == call.n > 0 /\ call.speed = BaseTarget(call.temp, call.speed)

\* The last call either returned its current speed, as limited to top, or
\* lowered it by at most drop_step as the stable_cycles_required-th call
\* since the last such step (or since the first call)
LoopDropRate(top) ==
    LET cur == Min(call.current, top)
    IN  IF call.speed < cur
        THEN /\ call.count >= stable_cycles_required
             /\ call.speed >= cur - drop_step
        ELSE call.speed = cur

\* C32 (as claimed): in closed loop with adaptive smoothing at a constant
\* temperature <= ramp_start, a speed that starts above the base target is
\* lowered in steps of at most drop_step, one every stable_cycles_required
\* evaluations, and returned unchanged in between; it reaches the base
\* target after finitely many evaluations and stays there.
C32_DeclineToBase ==
    /\ [] (LoopDeclining => LoopDropRate(100))
    /\ [] (LoopDeclining => <>[] LoopAtBase)

\* C32 (amended): the same, except that a current speed above max_fan_speed
\* is first limited to max_fan_speed, in the evaluation that receives it.
C32_DeclineToBaseClamped ==
    /\ [] (LoopDeclining => LoopDropRate(max_fan_speed))
    /\ [] (LoopDeclining => <>[] LoopAtBase)

\* C32 witness: a loop that started above max_fan_speed has come down, more
\* than one step below max_fan_speed, to its base target, and its last call
\* returned the current speed.
C32_Witness ==
    /\ LoopDeclining
    /\ LoopAtBase
    /\ call.start > max_fan_speed
    /\ call.speed < max_fan_speed - drop_step
    /\ call.speed = call.current


=============================================================================
